---- MODULE Spec2Model ----
(***************************************************************************)
(* A model of http_parser.c (krzhou/http-proxy): the head/body splitter,   *)
(* the delimiter tokenizer get_prefix, the request/status/header line      *)
(* parsers, the two head assemblers and the Host field sub-parser.         *)
(*                                                                         *)
(* Bytes are their ASCII codes, C strings are sequences of bytes, and a    *)
(* char* that is NULL is the one-element sequence NULL (no byte is -1).    *)
(* Offsets are C offsets (0-based).  malloc of a string's size is taken to  *)
(* succeed.  SpecSplit runs parse_body_head, SpecLine the request and      *)
(* status line parsers, SpecHead the head assemblers on any head,          *)
(* SpecValid the assemblers on well-formed heads, SpecHost                 *)
(* parse_host_field.                                                       *)
(***************************************************************************)
EXTENDS Integers, Sequences, FiniteSets, TLC

VARIABLES
    op,                 \* the function under execution
    pc,                 \* "start", "while", "done" or "crash"
    mem,                \* the input bytes (buf / line / request / response / host)
    n,                  \* parse_body_head's declared length
    pre,                \* the bytes that happen to lie right before the input in memory
    src,                \* how the input was built (first line fields and header pairs)
    st,                 \* cursor of the head assemblers, offset from the input's start
    len,                \* parse_*_head's len, and the return value of the line parsers
    line_len,           \* what the first-line parser returned to the assembler
    rd_lo, rd_hi,       \* lowest and highest offset read so far
    out_head, out_head_len, out_body, out_body_len,
    out_method, out_url, out_version, out_status_code, out_phrase,
    out_host, out_content_length, out_cache_control,
    out_hostname, out_port

vars == <<op, pc, mem, n, pre, src, st, len, line_len, rd_lo, rd_hi,
          out_head, out_head_len, out_body, out_body_len,
          out_method, out_url, out_version, out_status_code, out_phrase,
          out_host, out_content_length, out_cache_control,
          out_hostname, out_port>>

splitOuts == <<out_head, out_head_len, out_body, out_body_len>>
lineOuts == <<out_method, out_url, out_version, out_status_code, out_phrase>>
headOuts == <<out_host, out_content_length, out_cache_control>>
hostOuts == <<out_hostname, out_port>>

----------------------------------------------------------------------------
(* Bytes and strings *)

NUL == 0
HT == 9
LF == 10
CR == 13
SP == 32
PLUS == 43
MINUS == 45
ZERO == 48
COLON == 58

NULL == << -1 >>

CRLF == <<CR, LF>>
CRLFCRLF == <<CR, LF, CR, LF>>
COLONSP == <<COLON, SP>>

\* "Host", "Content-Length", "Cache-Control" as bytes
HostName == <<72, 111, 115, 116>>
ContentLengthName == <<67, 111, 110, 116, 101, 110, 116, 45, 76, 101, 110, 103, 116, 104>>
CacheControlName == <<67, 97, 99, 104, 101, 45, 67, 111, 110, 116, 114, 111, 108>>

Min(a, b) == IF a < b THEN a ELSE b
Max(a, b) == IF a > b THEN a ELSE b

\* The sequences over S of length at most k.
SeqsUpTo(S, k) == UNION {[1..i -> S] : i \in 0..k}

\* s from C offset i on.
Tail0(s, i) == SubSeq(s, i + 1, Len(s))

\* d occurs in s at C offset i.
OccursAt(s, d, i) == i + Len(d) <= Len(s) /\ \A k \in 1..Len(d) : s[i + k] = d[k]

RECURSIVE NulFrom(_, _)
\* The offset of the first NUL of s at or after offset i, Len(s) if there is none.
NulFrom(s, i) ==
    IF i >= Len(s) THEN Len(s) ELSE IF s[i + 1] = NUL THEN i ELSE NulFrom(s, i + 1)

\* strlen of the bytes s: the offset of the first NUL, Len(s) if there is none.
strlen(s) == NulFrom(s, 0)

\* The C string that starts at the first byte of s.
CStr(s) == SubSeq(s, 1, strlen(s))

RECURSIVE FindFrom(_, _, _)
\* The offset of the first occurrence of d in s at or after offset i, -1 if none.
FindFrom(s, d, i) ==
    IF i + Len(d) > Len(s) THEN 0 - 1
    ELSE IF OccursAt(s, d, i) THEN i
    ELSE FindFrom(s, d, i + 1)

\* The offset of the first occurrence of d in the bytes s, -1 if there is none.
Find(s, d) == FindFrom(s, d, 0)

\* strstr(s, d) on the bytes s a char* points to: the search stops at the first NUL.
\* The offset of the first occurrence, -1 for NULL.
strstr(s, d) == Find(CStr(s), d)

isspace(c) == c = SP \/ (c >= HT /\ c <= CR)
isdigit(c) == c >= ZERO /\ c <= ZERO + 9

RECURSIVE digits(_, _)
\* The value of the leading run of decimal digits of s, after acc.
digits(s, acc) ==
    IF s # <<>> /\ isdigit(s[1]) THEN digits(Tail(s), 10 * acc + (s[1] - ZERO)) ELSE acc

RECURSIVE atoi(_)
\* atoi on a C string: white space, an optional sign, the leading digits.
atoi(s) ==
    IF s # <<>> /\ isspace(s[1]) THEN atoi(Tail(s))
    ELSE IF s # <<>> /\ s[1] = MINUS THEN 0 - digits(Tail(s), 0)
    ELSE IF s # <<>> /\ s[1] = PLUS THEN digits(Tail(s), 0)
    ELSE digits(s, 0)

----------------------------------------------------------------------------
(* parse_body_head *)

\* The second `size`, n - size - strlen("\r\n"), as a signed number.  `size` is an
\* unsigned: a negative number k here stands for the 32-bit value 2^32 + k.
BodySize(len_n, size) == len_n - size - 2

\* What strstr(buf, "\r\n\r\n") does on the mapped bytes m: the match, if one starts
\* before the first NUL; NULL at the NUL; a fault when it runs off the mapped bytes.
FindBlankLine(m) ==
    LET p == strstr(m, CRLFCRLF) IN
    IF p >= 0 THEN [kind |-> "found", pos |-> p, last |-> p + 3]
    ELSE IF strlen(m) < Len(m) THEN [kind |-> "null", pos |-> -1, last |-> strlen(m)]
    ELSE [kind |-> "fault", pos |-> -1, last |-> Len(m)]

\* The value an int output holds before the call.
Unset == 0 - 1

MaxMem == 6
SplitBytes == {NUL, CR, LF, 97}

\* The caller's outputs before the call, and the locals the function does not use.
InitOuts ==
    /\ out_head = NULL /\ out_head_len = Unset /\ out_body = NULL /\ out_body_len = Unset
    /\ out_method = NULL /\ out_url = NULL
    /\ out_status_code = Unset
    /\ out_content_length = Unset
    /\ out_hostname = NULL /\ out_port = Unset

InitSplit ==
    /\ op = "parse_body_head" /\ pc = "start"
    /\ mem \in SeqsUpTo(SplitBytes, MaxMem) \cup {NULL}
    /\ n \in IF mem = NULL THEN {0} ELSE 0..Len(mem)
    /\ pre = <<>> /\ src = <<>>
    /\ st = 0 /\ len = 0 /\ line_len = 0
    /\ rd_lo = 0 /\ rd_hi = 0 - 1
    /\ InitOuts
    /\ out_version = NULL /\ out_phrase = NULL
    /\ out_host = NULL /\ out_cache_control = NULL

\* buf == NULL, or strstr finds no blank line before the first NUL: nothing is written.
BodyHeadNotFound ==
    /\ op = "parse_body_head" /\ pc = "start"
    /\ \/ /\ mem = NULL
          /\ UNCHANGED rd_hi
       \/ /\ mem # NULL
          /\ FindBlankLine(mem).kind = "null"
          /\ rd_hi' = FindBlankLine(mem).last
    /\ pc' = "done"
    /\ UNCHANGED <<op, mem, n, pre, src, st, len, line_len, rd_lo,
                   splitOuts, lineOuts, headOuts, hostOuts>>

\* strstr runs off the mapped bytes without meeting a NUL or a blank line.
BodyHeadFault ==
    /\ op = "parse_body_head" /\ pc = "start"
    /\ mem # NULL
    /\ FindBlankLine(mem).kind = "fault"
    /\ rd_hi' = FindBlankLine(mem).last
    /\ pc' = "crash"
    /\ UNCHANGED <<op, mem, n, pre, src, st, len, line_len, rd_lo,
                   splitOuts, lineOuts, headOuts, hostOuts>>

\* The blank line is found at pos: the head is copied, then n - size - 2 bytes of body.
BodyHeadSplit ==
    /\ op = "parse_body_head" /\ pc = "start"
    /\ mem # NULL
    /\ FindBlankLine(mem).kind = "found"
    /\ LET pos == FindBlankLine(mem).pos
           size == pos + 2
           bsize == BodySize(n, size)
       IN /\ out_head' = SubSeq(mem, 1, size)
          /\ out_head_len' = size
          /\ \/ /\ bsize >= 0
                /\ out_body' = SubSeq(mem, pos + 5, pos + 4 + bsize)
                /\ out_body_len' = bsize
                /\ rd_hi' = pos + 3 + bsize
                /\ pc' = "done"
             \* the blank line ends after offset n: size has wrapped around, and
             \* memcpy of about 4G bytes leaves the mapped bytes
             \/ /\ bsize < 0
                /\ UNCHANGED <<out_body, out_body_len>>
                /\ rd_hi' = Len(mem)
                /\ pc' = "crash"
             \* or malloc of about 4G bytes fails and the function returns
             \/ /\ bsize + 1 < 0
                /\ out_body' = NULL
                /\ UNCHANGED out_body_len
                /\ rd_hi' = pos + 3
                /\ pc' = "done"
    /\ UNCHANGED <<op, mem, n, pre, src, st, len, line_len, rd_lo,
                   lineOuts, headOuts, hostOuts>>

NextSplit == BodyHeadNotFound \/ BodyHeadFault \/ BodyHeadSplit

SpecSplit == InitSplit /\ [][NextSplit]_vars

\* The declared bytes buf[0..n).
Declared == SubSeq(mem, 1, n)

SplitReturned == op = "parse_body_head" /\ pc # "start" /\ mem # NULL

\* C1: whenever buf[0..n) contains "\r\n\r\n", first at offset pos, parse_body_head
\* yields head = buf[0, pos+2) with length pos+2 and body = buf[pos+4, n) with length
\* n-(pos+4), so that head, "\r\n", body is buf[0..n).
C1_SplitAtFirstBlankLine ==
    (SplitReturned /\ Find(Declared, CRLFCRLF) >= 0) =>
        LET pos == Find(Declared, CRLFCRLF) IN
        /\ pc = "done"
        /\ out_head = SubSeq(mem, 1, pos + 2)
        /\ out_head_len = pos + 2
        /\ out_body = SubSeq(mem, pos + 5, n)
        /\ out_body_len = n - (pos + 4)
        /\ out_head \o CRLF \o out_body = Declared

\* C2: whenever buf[0..n) contains no "\r\n\r\n", parse_body_head returns with all
\* four outputs as they were and has read no byte at an offset >= n.
C2_IncompleteIsBoundedNoOp ==
    (SplitReturned /\ Find(Declared, CRLFCRLF) < 0) =>
        /\ pc = "done"
        /\ out_head = NULL /\ out_head_len = Unset
        /\ out_body = NULL /\ out_body_len = Unset
        /\ rd_hi < n

----------------------------------------------------------------------------
(* get_prefix and the line parsers *)

\* get_prefix(str, delim, out_prefix): str is NULL or the bytes str points to.
\* end is the offset in str right after the delimiter, -1 for a NULL return;
\* prefix is *out_prefix after the call.
get_prefix(str, delim, out_prefix) ==
    IF str = NULL THEN [end |-> 0 - 1, prefix |-> out_prefix]
    ELSE LET e == strstr(str, delim)
         IN  IF e < 0 THEN [end |-> 0 - 1, prefix |-> out_prefix]
             ELSE [end |-> e + Len(delim), prefix |-> SubSeq(str, 1, e)]

\* The pointer get_prefix returned, as the bytes it points to.
Advance(str, end) == IF end < 0 THEN NULL ELSE Tail0(str, end)

\* parse_request_line(line, out_method, out_url, out_version): ret is the return
\* value, last the highest offset of line that was read.
parse_request_line(line, om, ou, ov) ==
    LET p1 == get_prefix(line, <<SP>>, om)
        s1 == Advance(line, p1.end)
        p2 == get_prefix(s1, <<SP>>, ou)
        s2 == Advance(s1, p2.end)
        p3 == get_prefix(s2, CRLF, ov)
    IN  IF p1.end < 0
        THEN [ret |-> 0 - 1, method |-> om, url |-> ou, version |-> ov,
              last |-> strlen(line)]
        ELSE IF p2.end < 0
        THEN [ret |-> 0 - 1, method |-> p1.prefix, url |-> ou, version |-> ov,
              last |-> strlen(line)]
        ELSE IF p3.end < 0
        THEN [ret |-> 0 - 1, method |-> p1.prefix, url |-> p2.prefix, version |-> ov,
              last |-> strlen(line)]
        ELSE [ret |-> p1.end + p2.end + p3.end,
              method |-> p1.prefix, url |-> p2.prefix, version |-> p3.prefix,
              last |-> p1.end + p2.end + p3.end - 1]

\* parse_header_line(line, out_name, out_value)
parse_header_line(line, oname, ovalue) ==
    LET p1 == get_prefix(line, COLONSP, oname)
        s1 == Advance(line, p1.end)
        p2 == get_prefix(s1, CRLF, ovalue)
    IN  IF p1.end < 0
        THEN [ret |-> 0 - 1, name |-> oname, value |-> ovalue, last |-> strlen(line)]
        ELSE IF p2.end < 0
        THEN [ret |-> 0 - 1, name |-> p1.prefix, value |-> ovalue, last |-> strlen(line)]
        ELSE [ret |-> p1.end + p2.end, name |-> p1.prefix, value |-> p2.prefix,
              last |-> p1.end + p2.end - 1]

\* What an int computed from an indeterminate pointer may be: atoi of the
\* uninitialized status_code, and NULL - line as the return value.
WildInts == {0 - 3, 4}

\* parse_status_line(line, out_version, out_status_code, out_phrase): the set of its
\* possible outcomes.  status_code is a local that only a successful get_prefix
\* assigns; read unassigned it is NULL (return -1) or some other pointer, on which
\* atoi and free either fault (crash) or go through with some int.
parse_status_line(line, ov, osc, oph) ==
    LET p1 == get_prefix(line, <<SP>>, ov)
        s1 == Advance(line, p1.end)
        p2 == get_prefix(s1, <<SP>>, NULL)
        s2 == Advance(s1, p2.end)
        p3 == get_prefix(s2, CRLF, oph)
        read == IF p3.end >= 0 THEN p1.end + p2.end + p3.end - 1 ELSE strlen(line)
        Out(r, sc, ph, cr) ==
            [ret |-> r, version |-> p1.prefix, status_code |-> sc, phrase |-> ph,
             crash |-> cr, last |-> read]
        \* from `*out_status_code = atoi(status_code)` on, with sc its value
        Phrase(sc) ==
            IF p3.prefix = NULL THEN {Out(0 - 1, sc, p3.prefix, FALSE)}
            ELSE IF p3.end >= 0 THEN {Out(p1.end + p2.end + p3.end, sc, p3.prefix, FALSE)}
            ELSE {Out(g, sc, p3.prefix, FALSE) : g \in WildInts}
    IN  IF p1.prefix = NULL THEN {Out(0 - 1, osc, oph, FALSE)}
        ELSE IF p2.end >= 0 THEN Phrase(atoi(p2.prefix))
        ELSE {Out(0 - 1, osc, oph, FALSE), Out(0 - 1, osc, oph, TRUE)}
             \cup UNION {Phrase(g) : g \in WildInts}

MaxLine == 6
LineBytes == {SP, CR, LF, 50}

\* A value an output string may hold from an earlier call: "p".
PriorStr == <<112>>

InitLine ==
    /\ op \in {"parse_request_line", "parse_status_line"}
    /\ pc = "start"
    /\ mem \in {l \o <<NUL>> : l \in SeqsUpTo(LineBytes, MaxLine)}
    /\ n = 0 /\ pre = <<>> /\ src = <<>>
    /\ st = 0 /\ len = 0 /\ line_len = 0
    /\ rd_lo = 0 /\ rd_hi = 0 - 1
    /\ InitOuts
    /\ out_version \in IF op = "parse_status_line" THEN {NULL, PriorStr} ELSE {NULL}
    /\ out_phrase \in IF op = "parse_status_line" THEN {NULL, PriorStr} ELSE {NULL}
    /\ out_host = NULL /\ out_cache_control = NULL

RequestLine ==
    /\ op = "parse_request_line" /\ pc = "start"
    /\ LET r == parse_request_line(mem, out_method, out_url, out_version)
       IN /\ out_method' = r.method /\ out_url' = r.url /\ out_version' = r.version
          /\ len' = r.ret
          /\ rd_hi' = r.last
    /\ pc' = "done"
    /\ UNCHANGED <<op, mem, n, pre, src, st, line_len, rd_lo, out_status_code,
                   out_phrase, splitOuts, headOuts, hostOuts>>

StatusLine ==
    /\ op = "parse_status_line" /\ pc = "start"
    /\ \E r \in parse_status_line(mem, out_version, out_status_code, out_phrase) :
          /\ out_version' = r.version /\ out_status_code' = r.status_code
          /\ out_phrase' = r.phrase
          /\ len' = r.ret
          /\ rd_hi' = r.last
          /\ pc' = IF r.crash THEN "crash" ELSE "done"
    /\ UNCHANGED <<op, mem, n, pre, src, st, line_len, rd_lo, out_method, out_url,
                   splitOuts, headOuts, hostOuts>>

NextLine == RequestLine \/ StatusLine

SpecLine == InitLine /\ [][NextLine]_vars

\* The input as the C string the parser is given.
Line == CStr(mem)

\* The first line of s, without its "\r\n".
FirstLine(s) == SubSeq(s, 1, Find(s, CRLF))

\* The number of occurrences of the byte c in s.
Count(s, c) == Cardinality({i \in 1..Len(s) : s[i] = c})

\* C3: parse_request_line returns -1, or method, url and version with the offset
\* right after the first "\r\n" of the input; it returns -1 whenever there is no
\* "\r\n" or the text before the first "\r\n" lacks the two " " delimiters, so the
\* fields, joined by " ", are the first line.
C3_RequestLineIsFirstLine ==
    (op = "parse_request_line" /\ pc = "done") =>
        /\ (Find(Line, CRLF) < 0 \/ Count(FirstLine(Line), SP) < 2) => len = 0 - 1
        /\ len # 0 - 1 =>
              /\ len = Find(Line, CRLF) + 2
              /\ out_method \o <<SP>> \o out_url \o <<SP>> \o out_version = FirstLine(Line)

\* The three delimiters of a status line are found in order: " ", " ", "\r\n".
StatusDelimiters(s) ==
    LET a == Find(s, <<SP>>)
        b == Find(Tail0(s, a + 1), <<SP>>)
        c == Find(Tail0(s, a + 1 + b + 1), CRLF)
    IN  a >= 0 /\ b >= 0 /\ c >= 0

\* C4: parse_status_line returns -1 whenever one of its three delimiters is missing,
\* whatever the outputs held before the call; it returns a length only when all
\* three were found.
C4_StatusLineMissingDelimiter ==
    (op = "parse_status_line" /\ pc # "start" /\ ~StatusDelimiters(Line)) =>
        (pc = "done" /\ len = 0 - 1)

----------------------------------------------------------------------------
(* parse_request_head and parse_response_head *)

\* A first-Host-wins capture.
HostCaptureFirstWins(name, value, host) ==
    IF name # NULL /\ name = HostName /\ host = NULL THEN value ELSE host

\* `if (name != NULL && strcmp(name, "Host") == 0) { *out_host = value; ... }`
HostCapture(name, value, host) ==
    IF name # NULL /\ name = HostName THEN value ELSE host

\* The else-branch `strcmp(name, "Cache-Control") == 0` of the response loop.
CacheControlCapture(name, value, cache_control) ==
    IF name # NULL /\ name # ContentLengthName /\ name = CacheControlName
    THEN value ELSE cache_control

\* `*out_content_length = atoi(value)` is reached.
ContentLengthHit(name) == name # NULL /\ name = ContentLengthName

\* end, as an offset from the start of the head.
HeadEnd == strlen(mem)

\* The bytes a pointer at offset i of the head points to.  The head is preceded
\* in memory by pre; nothing is mapped before pre.
At(i) == Tail0(pre \o mem, Len(pre) + i)
Mapped(i) == i >= 0 - Len(pre)

\* `len = parse_request_line(st, ...); st += len;`
RequestHeadLine ==
    /\ op = "parse_request_head" /\ pc = "start"
    /\ LET r == parse_request_line(At(st), out_method, out_url, out_version)
       IN /\ out_method' = r.method /\ out_url' = r.url /\ out_version' = r.version
          /\ len' = r.ret
          /\ line_len' = r.ret
          /\ st' = st + r.ret
          /\ rd_hi' = r.last
    /\ pc' = "while"
    /\ UNCHANGED <<op, mem, n, pre, src, rd_lo, out_status_code, out_phrase,
                   splitOuts, headOuts, hostOuts>>

\* `len = parse_status_line(response, ...); st += len;`
ResponseHeadLine ==
    /\ op = "parse_response_head" /\ pc = "start"
    /\ \E r \in parse_status_line(At(0), out_version, out_status_code, out_phrase) :
          /\ out_version' = r.version /\ out_status_code' = r.status_code
          /\ out_phrase' = r.phrase
          /\ rd_hi' = r.last
          /\ \/ /\ r.crash
                /\ pc' = "crash"
                /\ UNCHANGED <<len, line_len, st>>
             \/ /\ ~r.crash
                /\ len' = r.ret
                /\ line_len' = r.ret
                /\ st' = st + r.ret
                /\ pc' = "while"
    /\ UNCHANGED <<op, mem, n, pre, src, rd_lo, out_method, out_url,
                   splitOuts, headOuts, hostOuts>>

\* `while (st < end)` is false.
HeadExit ==
    /\ op \in {"parse_request_head", "parse_response_head"} /\ pc = "while"
    /\ ~(st < HeadEnd)
    /\ pc' = "done"
    /\ UNCHANGED <<op, mem, n, pre, src, st, len, line_len, rd_lo, rd_hi,
                   splitOuts, lineOuts, headOuts, hostOuts>>

\* The cursor is at a byte that is not mapped: parse_header_line faults.
HeaderFault ==
    /\ op \in {"parse_request_head", "parse_response_head"} /\ pc = "while"
    /\ st < HeadEnd
    /\ ~Mapped(st)
    /\ rd_lo' = Min(rd_lo, st)
    /\ pc' = "crash"
    /\ UNCHANGED <<op, mem, n, pre, src, st, len, line_len, rd_hi,
                   splitOuts, lineOuts, headOuts, hostOuts>>

\* One iteration of the loop of parse_request_head; name and value are NULL when
\* it starts.
RequestHeader ==
    /\ op = "parse_request_head" /\ pc = "while"
    /\ st < HeadEnd
    /\ Mapped(st)
    /\ LET r == parse_header_line(At(st), NULL, NULL)
       IN /\ out_host' = HostCapture(r.name, r.value, out_host)
          /\ len' = r.ret
          /\ st' = st + r.ret
          /\ rd_lo' = Min(rd_lo, st)
          /\ rd_hi' = Max(rd_hi, st + r.last)
    /\ UNCHANGED <<op, pc, mem, n, pre, src, line_len, out_content_length,
                   out_cache_control, splitOuts, lineOuts, hostOuts>>

\* One iteration of the loop of parse_response_head.  atoi(value) with value NULL
\* reads address 0: the process faults.
ResponseHeader ==
    /\ op = "parse_response_head" /\ pc = "while"
    /\ st < HeadEnd
    /\ Mapped(st)
    /\ LET r == parse_header_line(At(st), NULL, NULL)
       IN /\ rd_lo' = Min(rd_lo, st)
          /\ rd_hi' = Max(rd_hi, st + r.last)
          /\ \/ /\ ContentLengthHit(r.name) /\ r.value = NULL
                /\ pc' = "crash"
                /\ UNCHANGED <<len, st, out_content_length, out_cache_control>>
             \/ /\ ~(ContentLengthHit(r.name) /\ r.value = NULL)
                /\ out_content_length' =
                      IF ContentLengthHit(r.name) THEN atoi(r.value)
                      ELSE out_content_length
                /\ out_cache_control' =
                      CacheControlCapture(r.name, r.value, out_cache_control)
                /\ len' = r.ret
                /\ st' = st + r.ret
                /\ pc' = pc
    /\ UNCHANGED <<op, mem, n, pre, src, line_len, out_host,
                   splitOuts, lineOuts, hostOuts>>

NextHead ==
    \/ RequestHeadLine \/ ResponseHeadLine
    \/ HeadExit \/ HeaderFault
    \/ RequestHeader \/ ResponseHeader

(* The heads the assemblers are run on: a first line and header pieces. *)

HeaderLine(name, value) ==
    [ok |-> TRUE, name |-> name, value |-> value,
     bytes |-> name \o COLONSP \o value \o CRLF]
Malformed(bytes) ==
    [ok |-> FALSE, name |-> <<>>, value |-> <<>>, bytes |-> bytes]

\* "a", "b", "12", "7x", "m", "x: y", "foo"
ValidHeaders ==
    {HeaderLine(HostName, <<97>>),
     HeaderLine(HostName, <<98>>),
     HeaderLine(<<104, 111, 115, 116>>, <<97>>),
     HeaderLine(ContentLengthName, <<49, 50>>),
     HeaderLine(ContentLengthName, <<55, 120>>),
     HeaderLine(CacheControlName, <<109>>),
     HeaderLine(CacheControlName, <<>>),
     HeaderLine(<<88>>, <<120, COLON, SP, 121>>)}

MalformedHeaders ==
    {Malformed(HostName \o COLONSP \o <<97>>),
     Malformed(ContentLengthName \o COLONSP \o <<53>>),
     Malformed(CacheControlName \o COLONSP \o <<109>>),
     Malformed(<<102, 111, 111>> \o CRLF),
     Malformed(<<102, 111, 111>>)}

\* "G / H\r\n" and "H 200 K\r\n"
ValidRequestLines == {[ok |-> TRUE, bytes |-> <<71, SP, 47, SP, 72>> \o CRLF]}
ValidStatusLines == {[ok |-> TRUE, bytes |-> <<72, SP, 50, 48, 48, SP, 75>> \o CRLF]}
\* "G\r\n", "G /\r\n" and "H\r\n", "H 200\r\n"
BadRequestLines ==
    {[ok |-> FALSE, bytes |-> <<71>> \o CRLF],
     [ok |-> FALSE, bytes |-> <<71, SP, 47>> \o CRLF]}
BadStatusLines ==
    {[ok |-> FALSE, bytes |-> <<72>> \o CRLF],
     [ok |-> FALSE, bytes |-> <<72, SP, 50, 48, 48>> \o CRLF]}

MaxHeaders == 2
MaxPre == 1
PreBytes == {NUL, 72}

RECURSIVE Bytes(_)
\* The header pieces hs, one after the other.
Bytes(hs) == IF hs = <<>> THEN <<>> ELSE Head(hs).bytes \o Bytes(Tail(hs))

InitHeadFrom(requestLines, statusLines, headers) ==
    /\ op \in {"parse_request_head", "parse_response_head"}
    /\ pc = "start"
    /\ src \in [first : IF op = "parse_request_head" THEN requestLines ELSE statusLines,
                 hdrs : SeqsUpTo(headers, MaxHeaders)]
    /\ mem = src.first.bytes \o Bytes(src.hdrs) \o <<NUL>>
    /\ pre \in SeqsUpTo(PreBytes, MaxPre)
    /\ n = 0 /\ st = 0 /\ len = 0 /\ line_len = 0
    /\ rd_lo = 0 /\ rd_hi = 0 - 1
    /\ InitOuts
    /\ out_version \in IF op = "parse_response_head" THEN {NULL, PriorStr} ELSE {NULL}
    /\ out_phrase \in IF op = "parse_response_head" THEN {NULL, PriorStr} ELSE {NULL}
    /\ out_host = NULL /\ out_cache_control = NULL

\* Any head: well-formed or not.
InitHead ==
    InitHeadFrom(ValidRequestLines \cup BadRequestLines,
                 ValidStatusLines \cup BadStatusLines,
                 ValidHeaders \cup MalformedHeaders)

\* The heads built from a valid first line and valid header lines.
InitValid == InitHeadFrom(ValidRequestLines, ValidStatusLines, ValidHeaders)

SpecHead == InitHead /\ [][NextHead]_vars

NextValid ==
    \/ RequestHeadLine \/ ResponseHeadLine
    \/ HeadExit
    \/ RequestHeader \/ ResponseHeader

SpecValid == InitValid /\ [][NextValid]_vars

InHead == op \in {"parse_request_head", "parse_response_head"}

\* C5: after a first line that parsed, the cursor of the header loop never moves backwards,
\* and once a header line has failed to parse (len = -1) the loop does nothing but
\* stop.
C5_HeaderLoopAdvancesOrStops ==
    [][(InHead /\ pc = "while" /\ line_len >= 0) =>
           /\ st' >= st
           /\ len = 0 - 1 => pc' = "done"]_vars

\* C6: when the first-line parser returned -1, no header line is parsed afterwards:
\* the assembler only stops, with host, content-length and cache-control as before.
C6_InvalidFirstLineAborts ==
    [][(InHead /\ pc = "while" /\ line_len = 0 - 1) =>
           /\ pc' = "done"
           /\ UNCHANGED headOuts]_vars

\* C7: the assemblers never crash and read no byte outside the head, from its first
\* byte to its terminating NUL.
C7_HeadParseNeverCrashes ==
    InHead => (pc # "crash" /\ rd_lo >= 0 /\ rd_hi <= HeadEnd)

\* C8: after a first line that parsed, an iteration whose parse_header_line returns -1
\* leaves host, content-length and cache-control as they were.
C8_FailedHeaderContributesNothing ==
    [][(InHead /\ pc = "while" /\ line_len >= 0 /\ pc' = "while" /\ len' = 0 - 1) =>
           UNCHANGED headOuts]_vars

RECURSIVE LastValue(_, _, _)
\* The fold: the value of the last header of hs whose name is name, else init.
LastValue(hs, name, init) ==
    IF hs = <<>> THEN init
    ELSE LastValue(Tail(hs), name, IF Head(hs).name = name THEN Head(hs).value ELSE init)

\* The head is a valid first line followed by valid header lines.
SrcValid == src.first.ok /\ \A i \in 1..Len(src.hdrs) : src.hdrs[i].ok

\* C9: on a head made of a valid first line and valid header lines the assemblers
\* do not crash, keep the cursor inside the head, and end with the fold over the
\* header lines in order: host is the value of the last header named exactly "Host"
\* (absent if none); content-length is atoi of the last "Content-Length" value and
\* cache-control the value of the last "Cache-Control" (both as before if none).
C9_ValidHeadIsFold ==
    (InHead /\ SrcValid) =>
        /\ pc # "crash"
        /\ st >= 0 /\ st <= HeadEnd
        /\ pc = "done" =>
              IF op = "parse_request_head"
              THEN out_host = LastValue(src.hdrs, HostName, NULL)
              ELSE /\ out_content_length =
                        LET v == LastValue(src.hdrs, ContentLengthName, NULL)
                        IN  IF v = NULL THEN Unset ELSE atoi(v)
                   /\ out_cache_control = LastValue(src.hdrs, CacheControlName, NULL)
                   /\ out_host = NULL

\* Two Host headers with different values have been folded: the last one won.
C9_Witness ==
    /\ op = "parse_request_head" /\ pc = "done" /\ SrcValid
    /\ Len(src.hdrs) = 2
    /\ src.hdrs[1].name = HostName /\ src.hdrs[2].name = HostName
    /\ src.hdrs[1].value # src.hdrs[2].value
    /\ out_host = src.hdrs[2].value

----------------------------------------------------------------------------
(* parse_host_field *)

\* parse_host_field with `if (st < host + strlen(host))` dropped: atoi always runs.
parse_host_field_always_atoi(host, ohostname, oport) ==
    LET p == get_prefix(host, <<COLON>>, ohostname)
    IN  IF p.end < 0 THEN [hostname |-> CStr(host), port |-> oport]
        ELSE [hostname |-> p.prefix, port |-> atoi(Advance(host, p.end))]

\* parse_host_field(host, out_hostname, out_port): the outputs after the call.
parse_host_field(host, ohostname, oport) ==
    LET p == get_prefix(host, <<COLON>>, ohostname)
    IN  IF p.end < 0 THEN [hostname |-> CStr(host), port |-> oport]
        ELSE [hostname |-> p.prefix,
              port |-> IF p.end < strlen(host) THEN atoi(Advance(host, p.end))
                       ELSE oport]

MaxHost == 4
\* "a", ":", "8", "-", " "
HostBytes == {97, COLON, 56, MINUS, SP}

InitHost ==
    /\ op = "parse_host_field" /\ pc = "start"
    /\ mem \in {h \o <<NUL>> : h \in SeqsUpTo(HostBytes, MaxHost)}
    /\ n = 0 /\ pre = <<>> /\ src = <<>>
    /\ st = 0 /\ len = 0 /\ line_len = 0
    /\ rd_lo = 0 /\ rd_hi = 0 - 1
    /\ InitOuts
    /\ out_version = NULL /\ out_phrase = NULL
    /\ out_host = NULL /\ out_cache_control = NULL

HostField ==
    /\ op = "parse_host_field" /\ pc = "start"
    /\ LET r == parse_host_field(mem, out_hostname, out_port)
       IN /\ out_hostname' = r.hostname
          /\ out_port' = r.port
    /\ rd_hi' = strlen(mem)
    /\ pc' = "done"
    /\ UNCHANGED <<op, mem, n, pre, src, st, len, line_len, rd_lo,
                   splitOuts, lineOuts, headOuts>>

NextHost == HostField

SpecHost == InitHost /\ [][NextHost]_vars

\* The host string, the offset of its first ":" and what follows that ":".
HostStr == CStr(mem)
FirstColon == Find(HostStr, <<COLON>>)
AfterColon == Tail0(HostStr, FirstColon + 1)

\* The hostname and no-port part of C10, which the code meets as claimed.
HostSplit ==
    /\ FirstColon < 0 => (out_hostname = HostStr /\ out_port = Unset)
    /\ FirstColon >= 0 =>
          /\ out_hostname = SubSeq(HostStr, 1, FirstColon)
          /\ AfterColon = <<>> => out_port = Unset

\* C10 as claimed: parse_host_field splits on the first ":"; without one the
\* hostname is the whole string and the port keeps its prior value; with one the
\* hostname is the text before it, the port keeps its prior value when nothing
\* follows, and is otherwise the decimal number the remainder starts with, 0 when
\* the remainder does not start with a digit.
C10_HostFieldAsClaimed ==
    (op = "parse_host_field" /\ pc = "done") =>
        /\ HostSplit
        /\ (FirstColon >= 0 /\ AfterColon # <<>>) =>
              out_port = IF isdigit(AfterColon[1]) THEN digits(AfterColon, 0) ELSE 0

\* What the remainder decodes to: leading white space is skipped, one "+" or "-" is
\* taken as the sign, and the decimal digits that follow are the magnitude (0 when
\* no digit follows).
SignedDecimal(s) ==
    LET ws == CHOOSE k \in 0..Len(s) :
                  /\ \A i \in 1..k : isspace(s[i])
                  /\ k = Len(s) \/ ~isspace(s[k + 1])
        t == Tail0(s, ws)
        signed == t # <<>> /\ t[1] \in {PLUS, MINUS}
        magnitude == digits(IF signed THEN Tail(t) ELSE t, 0)
    IN  IF t # <<>> /\ t[1] = MINUS THEN 0 - magnitude ELSE magnitude

\* C10, amended: as claimed, except that a non-empty remainder is decoded as atoi
\* does: white space skipped, an optional sign, then the leading digits.
C10_HostFieldAmended ==
    (op = "parse_host_field" /\ pc = "done") =>
        /\ HostSplit
        /\ (FirstColon >= 0 /\ AfterColon # <<>>) => out_port = SignedDecimal(AfterColon)

\* A host with a hostname and a signed port has been parsed.
C10_Witness ==
    /\ op = "parse_host_field" /\ pc = "done"
    /\ FirstColon > 0 /\ AfterColon # <<>> /\ AfterColon[1] = MINUS
    /\ out_hostname = SubSeq(HostStr, 1, FirstColon)
    /\ out_port < 0 - 1

====
